---------------------------- MODULE Spec2Model ----------------------------
(***************************************************************************)
(* Model of the multi-framework orchestration core of the RFE builder:     *)
(*   plugins/base/orchestrator.py      MultiFrameworkOrchestrator          *)
(*   plugins/base/event_mapper.py      create_plugin_event, map_..._event  *)
(*   plugins/base/plugin_interface.py  PluginEvent, PluginError            *)
(*                                                                         *)
(* The specifications share the variables.                                 *)
(*                                                                         *)
(*   Spec        the orchestrator as its callers can drive it: register,   *)
(*               stop, restart, and the async generator execute_workflow   *)
(*               stepped by its consumer.                                  *)
(*   SpecRunner  the per-unit runner, the async generator                  *)
(*               _execute_framework_with_error_handling, stepped directly  *)
(*               by a consumer, with stop/restart changing the Stopped-Set *)
(*               and the consumer's task being cancelled while it waits.   *)
(*   SpecHandles the methods that read active_tasks (stop_framework,       *)
(*               get_framework_status) and restart_framework, called on    *)
(*               an orchestrator whose active_tasks holds task handles.    *)
(*   SpecStopping the same methods, with a stop_framework that suspends in *)
(*               `await task` followed through its suspension.             *)
(*   SpecMux     the multiplexer, the async generator                      *)
(*               _stream_from_multiple_tasks, called with a task list and  *)
(*               stepped by a consumer, with its feeder tasks.             *)
(*   SpecOverlap Spec with an execute_workflow called while the stream of  *)
(*               the call before it is open.                               *)
(*   SpecCore    every operation, a runner and a multiplexer together,     *)
(*               over one framework name.                                  *)
(*   SpecStopRace a stop_framework suspended in `await task` while an      *)
(*               execute_workflow reaches its clean-up.                    *)
(*   SpecManager src/plugin_integration.py PluginIntegrationManager driven *)
(*               through set_active_frameworks, stop_framework and         *)
(*               execute_multi_framework_workflow.                         *)
(*   SpecRestart the same manager driven through stop_framework and        *)
(*               restart_framework.                                        *)
(*                                                                         *)
(* execute_workflow hands the runner's generator object to                 *)
(* asyncio.create_task (orchestrator.py:106-110).  create_task accepts     *)
(* coroutines only: for an async generator object it raises                *)
(*   TypeError: a coroutine was expected, got <async_generator object ...> *)
(* so for a valid non-empty selection the first __anext__ of               *)
(* execute_workflow raises at the first selected name, before line 111     *)
(* stores a handle.  active_tasks therefore stays empty and the feeder /   *)
(* multiplexer loop of _stream_from_multiple_tasks is entered only with an *)
(* empty task list.  Spec models exactly that; the runner, which is a      *)
(* well-defined generator on its own, is modelled in SpecRunner.           *)
(*                                                                         *)
(* datetime.now().isoformat() is abstracted to the single token Now.       *)
(***************************************************************************)
EXTENDS Naturals, Sequences, FiniteSets

\* ------------------------------------------------------------------ bounds

\* Longest selection list handed to execute_workflow.
MaxSel == 2

\* Longest event sequence a unit's execute_component yields before it ends.
MaxEvents == 2

\* ------------------------------------------------------------- input sets

\* Framework identifiers callers use (event_mapper.py FRAMEWORK_EVENT_TYPES).
Names == {"openhands", "langchain", "crewai"}

\* Component (granularity) names passed to execute_component.
Components == {"full_workflow", "analysis"}

\* execute_workflow's default for its component parameter; no caller in the
\* repository passes another one.
DefaultComponent == "full_workflow"

None == "None"

Now == "now"

\* PluginEvent.type values a unit yields itself.
UnitKinds == {"streaming", "complete", "error"}

\* Terminal kinds of the event envelope.
TerminalKinds == {"complete", "error", "stopped"}

\* Sequences over S of length at most n.
SeqUpTo(S, n) == UNION {[1..k -> S] : k \in 0..n}

\* ---------------------------------------------------- exceptions (faults)

\* Python's isinstance(e, PluginError): PluginError and its subclasses.
PluginErrorClasses == {"PluginError", "PluginExecutionError", "PluginConfigurationError"}

\* PluginError.__init__(framework, message, component=None); any other
\* Exception carries only its message.
Faults ==
    [cls : PluginErrorClasses, framework : {"openhands"}, message : {"boom"},
     component : {None, "analysis"}]
    \cup
    [cls : {"Exception"}, framework : {None}, message : {"Test error"},
     component : {None}]

\* str(e): PluginError passes f"{framework}: {message}" to Exception.__init__,
\* a plain Exception prints its message.  Strings are sequences of pieces.
StrOf(e) ==
    IF e.cls \in PluginErrorClasses
    THEN <<e.framework, ": ", e.message>>
    ELSE <<e.message>>

\* ------------------------------------------------------------------ units

\* A unit of work (a PluginWorkflow implementation) as the core sees it: the
\* kinds of the events its execute_component yields, in order, and how the
\* generator ends: it returns, or it raises a fault.
Endings == [how : {"return"}] \cup [how : {"raise"}, fault : Faults]

Units == [events : SeqUpTo(UnitKinds, MaxEvents), ending : Endings]

\* The i-th PluginEvent a unit registered or run under name f yields for
\* component c.  data carries the position, so that two events of one unit
\* are never equal.
UnitEvent(f, c, u, i) ==
    [framework |-> f, type |-> u.events[i], component |-> c,
     data |-> [seq |-> i], timestamp |-> Now]

\* The whole sequence execute_component(c, ...) of unit u yields.
UnitSequence(f, c, u) == [i \in 1..Len(u.events) |-> UnitEvent(f, c, u, i)]

\* Units the tests register: a well-behaved one, and the test's FailingPlugin
\* (one streaming event, then raise Exception("Test error")).
GoodUnit == [events |-> <<"streaming", "complete">>, ending |-> [how |-> "return"]]

FailingUnit ==
    [events |-> <<"streaming">>,
     ending |-> [how |-> "raise",
                 fault |-> [cls |-> "Exception", framework |-> None,
                            message |-> "Test error", component |-> None]]]

SampleUnits == {GoodUnit, FailingUnit}

\* A plugin written as the three plugins of the repository are, asked for a
\* component that its supported_granularities does not list: before it
\* yields anything execute_component raises
\*   PluginExecutionError(self.framework_name, f"Unsupported component: {component}", component)
UnsupportingUnit ==
    [events |-> <<>>,
     ending |-> [how |-> "raise",
                 fault |-> [cls |-> "PluginExecutionError", framework |-> "openhands",
                            message |-> <<"Unsupported component: ", DefaultComponent>>,
                            component |-> DefaultComponent]]]

\* The plugins registered under a name: under "openhands" a well-behaved one
\* or one that does not support the component, under the other names the
\* sample units.
RegisteredUnits(framework) ==
    IF framework = "openhands" THEN {GoodUnit, UnsupportingUnit} ELSE SampleUnits

\* ----------------------------------------------------------------- events

\* event_mapper.create_plugin_event
create_plugin_event(framework, event_type, component, data) ==
    [framework |-> framework, type |-> event_type, component |-> component,
     data |-> data, timestamp |-> Now]

\* A mapping that builds agent_key as component and framework, in that order.
map_plugin_event_component_first(plugin_event) ==
    [type |-> "multi_agent_analysis",
     data |-> [framework    |-> plugin_event.framework,
               agent_key    |-> <<plugin_event.component, "_", plugin_event.framework>>,
               stream_event |-> plugin_event.data,
               timestamp    |-> plugin_event.timestamp,
               component    |-> plugin_event.component,
               event_type   |-> plugin_event.type]]

\* event_mapper.map_plugin_event_to_ui_event
map_plugin_event_to_ui_event(plugin_event) ==
    [type |-> "multi_agent_analysis",
     data |-> [framework    |-> plugin_event.framework,
               agent_key    |-> <<plugin_event.framework, "_", plugin_event.component>>,
               stream_event |-> plugin_event.data,
               timestamp    |-> plugin_event.timestamp,
               component    |-> plugin_event.component,
               event_type   |-> plugin_event.type]]

\* MultiFrameworkOrchestrator._create_error_event
_create_error_event(framework, message) ==
    map_plugin_event_to_ui_event(
        create_plugin_event(framework, "error", "orchestrator",
                            [error |-> message, timestamp |-> Now]))

\* ------------------------------------------------------------ dictionaries

\* A Python dict is a sequence of <<key, value>> pairs in insertion order.
DictKeys(d) == [i \in 1..Len(d) |-> d[i][1]]

DictKeySet(d) == {d[i][1] : i \in 1..Len(d)}

DictGet(d, k) == d[CHOOSE i \in 1..Len(d) : d[i][1] = k][2]

\* d[k] = v: an existing key keeps its place and gets the new value.
DictSet(d, k, v) ==
    IF k \in DictKeySet(d)
    THEN [i \in 1..Len(d) |-> IF d[i][1] = k THEN <<k, v>> ELSE d[i]]
    ELSE Append(d, <<k, v>>)

RECURSIVE DictDel(_, _)
\* del d[k]
DictDel(d, k) ==
    IF d = <<>> THEN <<>>
    ELSE IF Head(d)[1] = k THEN DictDel(Tail(d), k)
    ELSE <<Head(d)>> \o DictDel(Tail(d), k)

\* set(seq)
SetOf(seq) == {seq[i] : i \in 1..Len(seq)}

\* All orders in which a finite set can be iterated.
Orderings(S) ==
    {p \in [1..Cardinality(S) -> S] : \A i, j \in 1..Cardinality(S) : p[i] = p[j] => i = j}

RECURSIVE Join(_, _)
\* sep.join(seq), as a sequence of pieces
Join(sep, seq) ==
    IF seq = <<>> THEN <<>>
    ELSE IF Len(seq) = 1 THEN <<seq[1]>>
    ELSE <<seq[1], sep>> \o Join(sep, Tail(seq))

\* -------------------------------------------------------------- variables

VARIABLES
    plugins,             \* self.plugins: Dict[str, PluginWorkflow]
    active_tasks,        \* self.active_tasks: Dict[str, asyncio.Task]
    stopped_frameworks,  \* self.stopped_frameworks: Set[str]
    wf_pc,               \* the execute_workflow generator its caller holds
    wf_selected,         \*   its selected_frameworks argument
    wf_component,        \*   its component argument
    wf_out,              \*   the UIEvents it has yielded to the caller
    wf_raised,           \*   the exception it raised to the caller, or None
    run_pc,              \* a runner generator (_execute_framework_with_error_handling)
    run_framework,       \*   its framework argument
    run_plugin,          \*   its plugin argument
    run_component,       \*   its component argument
    run_pos,             \*   how many events execute_component has yielded to it
    unit_pc,             \*   the state of plugin.execute_component's generator
    run_out,             \*   the PluginEvents the runner has yielded
    produce_calls,       \*   how many times it has called plugin.execute_component
    stop_mark,           \* history: whether stop_framework(run_framework) was called
                         \*   while the runner was suspended in its loop, having
                         \*   yielded no terminal envelope, and not restarted since;
                         \*   and Len(run_out) at that call
    stop_requests,       \* history: the names stop_framework was called for since
                         \*   the body of the most recent execute_workflow began,
                         \*   and restart_framework was not called for since
    last_call,           \* history, kept by SpecHandles: the call made by the step
                         \*   just taken, what it found and how it ended
    mux_pc,              \* a _stream_from_multiple_tasks generator
    framework_tasks,     \*   its framework_tasks argument, by framework name
    feeder_tasks,        \*   the state of each feed_queue task, by position
    event_queue,         \*   the items of its asyncio.Queue, oldest first
    completed_frameworks,\*   its set completed_frameworks
    mux_out,             \*   the UIEvents it has yielded
    queue_puts,          \* history: every item put on event_queue, in order
    stopping,            \* the names whose stop_framework call is suspended in
                         \*   `await task` (line 52)
    overlap,             \* history, kept by SpecOverlap: whether the body of an
                         \*   execute_workflow began while the stream of the call
                         \*   before it was still open, and the names that step
                         \*   took out of the Stopped-Set
    active_frameworks,   \* PluginIntegrationManager.active_frameworks: List[str]
    mgr_pc,              \* an async generator of the manager its caller holds
    mgr_op,              \*   which method made it: "execute" or "restart"
    mgr_framework,       \*   the framework argument of restart_framework
    mgr_out,             \*   the UIEvents it has yielded to the caller
    mgr_before,          \* history: the Stopped-Set when its body began
    mgr_call             \* history, kept by SpecManager: the manager method
                         \*   called by the step just taken and its argument

orch_vars == <<plugins, active_tasks, stopped_frameworks>>

wf_vars == <<wf_pc, wf_selected, wf_component, wf_out, wf_raised>>

run_vars == <<run_pc, run_framework, run_plugin, run_component, run_pos, unit_pc, run_out,
              produce_calls>>

vars == <<plugins, active_tasks, stopped_frameworks,
          wf_pc, wf_selected, wf_component, wf_out, wf_raised,
          run_pc, run_framework, run_plugin, run_component, run_pos, unit_pc, run_out,
          produce_calls,
          stop_mark, stop_requests, last_call,
          mux_pc, framework_tasks, feeder_tasks, event_queue, completed_frameworks,
          mux_out, queue_puts, stopping, overlap,
          active_frameworks, mgr_pc, mgr_op, mgr_framework, mgr_out, mgr_before,
          mgr_call>>

mgr_vars == <<active_frameworks, mgr_pc, mgr_op, mgr_framework, mgr_out, mgr_before,
              mgr_call>>

mux_vars == <<mux_pc, framework_tasks, feeder_tasks, event_queue, completed_frameworks,
              mux_out, queue_puts>>

\* last_call when the step just taken was no observed call.
NoCall ==
    [op |-> "none", name |-> None, was_stopped |-> FALSE, had_handle |-> FALSE,
     was_done |-> FALSE, task_done |-> FALSE, raised |-> FALSE,
     after_stop |-> FALSE, status |-> <<>>]

\* overlap when no execute_workflow began over an open stream.
NoOverlap == [open |-> FALSE, lost |-> {}]

\* mgr_call when the step just taken called no method of the manager that
\* is recorded.
NoManagerCall == [op |-> "none", arg |-> <<>>]

\* PluginIntegrationManager.__init__ line 20; no generator of the manager
\* exists.
InitManager ==
    /\ active_frameworks = <<"llamaindex">>
    /\ mgr_pc = "none"
    /\ mgr_op = "none"
    /\ mgr_framework = None
    /\ mgr_out = <<>>
    /\ mgr_before = {}
    /\ mgr_call = NoManagerCall

\* No _stream_from_multiple_tasks generator exists.
InitMux ==
    /\ mux_pc = "none"
    /\ framework_tasks = <<>>
    /\ feeder_tasks = <<>>
    /\ event_queue = <<>>
    /\ completed_frameworks = {}
    /\ mux_out = <<>>
    /\ queue_puts = <<>>

\* MultiFrameworkOrchestrator.__init__; no generator exists yet.
Init ==
    /\ plugins = <<>>
    /\ active_tasks = <<>>
    /\ stopped_frameworks = {}
    /\ wf_pc = "none"
    /\ wf_selected = <<>>
    /\ wf_component = DefaultComponent
    /\ wf_out = <<>>
    /\ wf_raised = None
    /\ run_pc = "none"
    /\ run_framework = None
    /\ run_plugin = GoodUnit
    /\ run_component = DefaultComponent
    /\ run_pos = 0
    /\ unit_pc = "none"
    /\ run_out = <<>>
    /\ produce_calls = 0
    /\ stop_mark = [seen |-> FALSE, at |-> 0]
    /\ stop_requests = {}
    /\ last_call = NoCall
    /\ InitMux
    /\ stopping = {}
    /\ overlap = NoOverlap
    /\ InitManager


\* ------------------------------------------------- orchestrator operations

\* MultiFrameworkOrchestrator.register_plugin: self.plugins[framework] = plugin
register_plugin(framework, plugin) ==
    /\ plugins' = DictSet(plugins, framework, plugin)
    /\ UNCHANGED <<active_tasks, stopped_frameworks>>
    /\ UNCHANGED wf_vars
    /\ UNCHANGED run_vars
    /\ UNCHANGED stop_mark
    /\ UNCHANGED stop_requests

\* MultiFrameworkOrchestrator.get_available_frameworks
get_available_frameworks == DictKeys(plugins)

\* A membership test on the registry instead of the Stopped-Set.
is_framework_registered(framework) == framework \in DictKeySet(plugins)

\* MultiFrameworkOrchestrator.is_framework_stopped
is_framework_stopped(framework) == framework \in stopped_frameworks

\* How `await task` (line 52) can end once task.cancel() was requested: the
\* task ends cancelled (CancelledError, swallowed by lines 53-54), the task
\* swallows the cancellation and returns, or the task ends with another
\* exception, which `await task` raises again.
AwaitOutcomes == {"cancelled", "returned", "raised"}

\* task.cancel() without `await task`: the call returns while the task has
\* not yet run to its end.
CancelWithoutAwait(task, outcome) == task

\* Lines 50-54: task.cancel() and `await task`.  Whatever the outcome, the
\* await ends only when the task is done.
CancelAndAwait(task, outcome) == [task EXCEPT !.done = TRUE]

\* The task stop_framework(framework) finds in active_tasks, as it is when
\* the call ends.
StoppedTask(framework, outcome) ==
    LET task == DictGet(active_tasks, framework)
    IN  IF ~task.done THEN CancelAndAwait(task, outcome) ELSE task

\* stop_framework(framework) ends by raising: its task was not done and
\* `await task` raised something other than CancelledError.
StopRaises(framework, outcome) ==
    /\ framework \in DictKeySet(active_tasks)
    /\ ~DictGet(active_tasks, framework).done
    /\ outcome = "raised"

\* MultiFrameworkOrchestrator.stop_framework.  The name enters the
\* Stopped-Set first (45).  If active_tasks holds a handle for it (47), a
\* task that is not done is cancelled and awaited (49-54), and the entry is
\* deleted (55) unless the await raised.
stop_framework(framework, outcome) ==
    /\ stopped_frameworks' = stopped_frameworks \cup {framework}
    /\ active_tasks' = IF framework \in DictKeySet(active_tasks)
                       THEN IF StopRaises(framework, outcome)
                            THEN DictSet(active_tasks, framework,
                                         StoppedTask(framework, outcome))
                            ELSE DictDel(active_tasks, framework)
                       ELSE active_tasks
    /\ UNCHANGED plugins
    /\ UNCHANGED wf_vars
    /\ UNCHANGED run_vars
    /\ stop_mark' = IF /\ framework = run_framework
                       /\ run_pc = "loop"
                       /\ \A i \in 1..Len(run_out) : run_out[i].type \notin TerminalKinds
                       /\ ~stop_mark.seen
                    THEN [seen |-> TRUE, at |-> Len(run_out)]
                    ELSE stop_mark
    /\ stop_requests' = stop_requests \cup {framework}

\* A restart that empties the Stopped-Set, as the start of execute_workflow
\* does, instead of removing the one name.
restart_framework_clears(framework) ==
    /\ stopped_frameworks' = {}
    /\ UNCHANGED <<plugins, active_tasks>>
    /\ UNCHANGED wf_vars
    /\ UNCHANGED run_vars
    /\ stop_mark' = IF framework = run_framework
                    THEN [seen |-> FALSE, at |-> 0]
                    ELSE stop_mark
    /\ stop_requests' = stop_requests \ {framework}

\* MultiFrameworkOrchestrator.restart_framework
restart_framework(framework) ==
    /\ stopped_frameworks' = IF framework \in stopped_frameworks
                             THEN stopped_frameworks \ {framework}
                             ELSE stopped_frameworks
    /\ UNCHANGED <<plugins, active_tasks>>
    /\ UNCHANGED wf_vars
    /\ UNCHANGED run_vars
    /\ stop_mark' = IF framework = run_framework
                    THEN [seen |-> FALSE, at |-> 0]
                    ELSE stop_mark
    /\ stop_requests' = stop_requests \ {framework}

\* Calling execute_workflow(user_input, selected_frameworks, context,
\* agent_manager, component) creates the async generator; none of its body
\* runs before the consumer's first __anext__.  A generator that was created
\* and never stepped has no effect, so a new call is followed only once the
\* one before it has been stepped.
execute_workflow(selected_frameworks, component) ==
    /\ wf_pc # "created"
    /\ wf_pc' = "created"
    /\ wf_selected' = selected_frameworks
    /\ wf_component' = component
    /\ wf_out' = <<>>
    /\ wf_raised' = None
    /\ UNCHANGED orch_vars
    /\ UNCHANGED run_vars
    /\ UNCHANGED stop_mark
    /\ UNCHANGED stop_requests

\* The set difference of lines 90-91 with its operands exchanged.
invalid_frameworks_swapped(selected_frameworks) ==
    DictKeySet(plugins) \ SetOf(selected_frameworks)

\* execute_workflow lines 90-91
invalid_frameworks(selected_frameworks) == SetOf(selected_frameworks) \ DictKeySet(plugins)

\* The message of line 95: "Invalid frameworks: " + ', '.join(invalid), the
\* set iterated in the order `order`.
InvalidMessage(order) == <<"Invalid frameworks: ">> \o Join(", ", order)

\* asyncio.create_task(coro): a coroutine is scheduled and its Task returned;
\* anything else, an async generator object included, raises TypeError.
create_task(kind) == IF kind = "coroutine" THEN "Task" ELSE "TypeError"

\* What line 107 hands to create_task: _execute_framework_with_error_handling
\* is an `async def` with `yield`, so calling it makes an async generator.
RunnerObjectKind == "async_generator"

\* execute_workflow lines 118-121: delete the handles whose task is done.  A
\* handle is a record with the task's done flag.
CleanUpCompleted(tasks) == SelectSeq(tasks, LAMBDA kv : ~kv[2].done)

\* A clearing that takes out the selected names only.
clear_selected(stopped, selected_frameworks) == stopped \ SetOf(selected_frameworks)

\* Line 87, self.stopped_frameworks.clear(): whatever is selected, the whole
\* set is emptied.
clear(stopped, selected_frameworks) == {}

\* First __anext__ of execute_workflow: lines 86-121 up to the first yield,
\* return or raise.
\*   86-87    clear the Stopped-Set
\*   90-97    an unregistered name: yield one error event (then return)
\*   100-112  for the first selected name create_task raises TypeError
\*   115-121  an empty selection: _stream_from_multiple_tasks([]) starts no
\*            feeder, its loop `while 0 < 0` does not run, nothing is yielded
wf_start ==
    /\ wf_pc = "created"
    /\ stopped_frameworks' = clear(stopped_frameworks, wf_selected)
    /\ IF invalid_frameworks(wf_selected) # {}
       THEN /\ \E order \in Orderings(invalid_frameworks(wf_selected)) :
                 wf_out' = Append(wf_out,
                                  _create_error_event("orchestrator", InvalidMessage(order)))
            /\ wf_pc' = "yield_error"
            /\ UNCHANGED <<wf_raised, active_tasks>>
       ELSE IF wf_selected # <<>>
       THEN IF create_task(RunnerObjectKind) = "TypeError"
            THEN /\ wf_pc' = "raised"
                 /\ wf_raised' = "TypeError"
                 /\ UNCHANGED <<wf_out, active_tasks>>
            ELSE \* line 111 would store the Task; never taken, since
                 \* RunnerObjectKind is not a coroutine
                 /\ wf_pc' = "streaming"
                 /\ active_tasks' = DictSet(active_tasks, wf_selected[1], [done |-> FALSE])
                 /\ UNCHANGED <<wf_out, wf_raised>>
       ELSE /\ wf_pc' = "ended"
            /\ active_tasks' = CleanUpCompleted(active_tasks)
            /\ UNCHANGED <<wf_out, wf_raised>>
    /\ UNCHANGED <<plugins, wf_selected, wf_component>>
    /\ UNCHANGED run_vars
    /\ UNCHANGED stop_mark
    /\ stop_requests' = {}

\* Next __anext__ after the error event of line 93: line 97 returns.
wf_return ==
    /\ wf_pc = "yield_error"
    /\ wf_pc' = "ended"
    /\ UNCHANGED <<wf_selected, wf_component, wf_out, wf_raised>>
    /\ UNCHANGED orch_vars
    /\ UNCHANGED run_vars
    /\ UNCHANGED stop_mark
    /\ UNCHANGED stop_requests

Selections == SeqUpTo(Names, MaxSel)

\* What a step of the orchestrator or of a runner leaves alone: the
\* multiplexer generator, and the histories other specifications keep.
Idle ==
    /\ UNCHANGED mux_vars
    /\ UNCHANGED stopping
    /\ UNCHANGED last_call
    /\ UNCHANGED overlap
    /\ UNCHANGED mgr_vars

Next ==
    \/ \E f \in Names : \E p \in RegisteredUnits(f) : register_plugin(f, p) /\ Idle
    \/ \E f \in Names, o \in AwaitOutcomes : stop_framework(f, o) /\ Idle
    \/ \E f \in Names : restart_framework(f) /\ Idle
    \/ \E sel \in Selections : execute_workflow(sel, DefaultComponent) /\ Idle
    \/ wf_start /\ Idle
    \/ wf_return /\ Idle

Spec == Init /\ [][Next]_vars


\* ------------------------------------------------------ the per-unit runner

\* Line 139: the envelope yielded when the name is found in the Stopped-Set.
StoppedByUserEvent(framework, component) ==
    create_plugin_event(framework, "stopped", component,
                        [message |-> <<framework, " framework stopped by user">>])

\* Line 149: the envelope yielded on asyncio.CancelledError.
StoppedEvent(framework, component) ==
    create_plugin_event(framework, "stopped", component,
                        [message |-> <<framework, " framework stopped">>])

\* A handler that matches the class PluginError itself and none of its
\* subclasses.
IsExactlyPluginError(e) == e.cls = "PluginError"

\* `except PluginError` (line 154) is tried before `except Exception` (165).
IsPluginError(e) == e.cls \in PluginErrorClasses

\* The error_type the handler that catches e writes.
ErrorType(e) == IF IsPluginError(e) THEN "plugin_error" ELSE "unexpected_error"

\* Lines 156-163 and 167-174: the envelope yielded for a fault e.
ErrorEvent(framework, component, e) ==
    IF IsPluginError(e)
    THEN create_plugin_event(framework, "error", component,
             [error |-> StrOf(e), error_type |-> ErrorType(e),
              component |-> IF e.component # None THEN e.component ELSE component])
    ELSE create_plugin_event(framework, "error", component,
             [error |-> StrOf(e), error_type |-> ErrorType(e),
              framework |-> framework])

\* Calling _execute_framework_with_error_handling(framework, plugin,
\* component, ...) creates the generator; its body has not started.  One
\* generator is followed from its creation to its end.
runner_call(framework, plugin, component) ==
    /\ run_pc = "none"
    /\ run_pc' = "created"
    /\ run_framework' = framework
    /\ run_plugin' = plugin
    /\ run_component' = component
    /\ run_pos' = 0
    /\ unit_pc' = "none"
    /\ run_out' = <<>>
    /\ produce_calls' = 0
    /\ stop_mark' = [seen |-> FALSE, at |-> 0]
    /\ UNCHANGED stop_requests
    /\ UNCHANGED orch_vars
    /\ UNCHANGED wf_vars

\* Line 134: `async for event in plugin.execute_component(...)` evaluates
\* the call once, when the statement is entered, which is when the body of
\* the runner starts; no handler of lines 147-174 enters it again.  The
\* number of calls a step makes from position pc.
CallsProduce(pc) == IF pc = "created" THEN 1 ELSE 0

\* The runner is inside its `async for` (lines 134-145): not yet started, or
\* suspended at `yield event` of line 145.
InLoop == run_pc \in {"created", "loop"}

\* A runner that replaces only streaming events of a stopped unit and still
\* forwards its terminal events.
runner_pull_event_forwards_terminal ==
    /\ InLoop
    /\ run_pos < Len(run_plugin.events)
    /\ run_pos' = run_pos + 1
    /\ unit_pc' = "active"
    /\ IF run_framework \in stopped_frameworks /\ run_plugin.events[run_pos + 1] = "streaming"
       THEN /\ run_out' = Append(run_out, StoppedByUserEvent(run_framework, run_component))
            /\ run_pc' = "yield_stopped"
       ELSE /\ run_out' = Append(run_out,
                                 UnitEvent(run_framework, run_component, run_plugin, run_pos + 1))
            /\ run_pc' = "loop"
    /\ produce_calls' = produce_calls + CallsProduce(run_pc)
    /\ UNCHANGED <<run_framework, run_plugin, run_component>>
    /\ UNCHANGED orch_vars
    /\ UNCHANGED wf_vars
    /\ UNCHANGED stop_mark
    /\ UNCHANGED stop_requests

\* __anext__ while in the loop and the unit yields its next event: lines
\* 134-145.  The event is pulled first; then the Stopped-Set decides whether
\* it is forwarded (145) or replaced by a stopped envelope (139-143).
runner_pull_event ==
    /\ InLoop
    /\ run_pos < Len(run_plugin.events)
    /\ run_pos' = run_pos + 1
    /\ unit_pc' = "active"
    /\ IF run_framework \in stopped_frameworks
       THEN /\ run_out' = Append(run_out, StoppedByUserEvent(run_framework, run_component))
            /\ run_pc' = "yield_stopped"
       ELSE /\ run_out' = Append(run_out,
                                 UnitEvent(run_framework, run_component, run_plugin, run_pos + 1))
            /\ run_pc' = "loop"
    /\ produce_calls' = produce_calls + CallsProduce(run_pc)
    /\ UNCHANGED <<run_framework, run_plugin, run_component>>
    /\ UNCHANGED orch_vars
    /\ UNCHANGED wf_vars
    /\ UNCHANGED stop_mark
    /\ UNCHANGED stop_requests

\* __anext__ while in the loop and the unit's generator ends.  A normal end
\* leaves the `async for`, the function falls off its end and the runner is
\* exhausted without yielding; a fault is caught by line 154 or 165 and one
\* error envelope is yielded.
runner_pull_end ==
    /\ InLoop
    /\ run_pos = Len(run_plugin.events)
    /\ IF run_plugin.ending.how = "return"
       THEN /\ unit_pc' = "returned"
            /\ run_pc' = "done"
            /\ UNCHANGED run_out
       ELSE /\ unit_pc' = "raised"
            /\ run_out' = Append(run_out,
                                 ErrorEvent(run_framework, run_component, run_plugin.ending.fault))
            /\ run_pc' = "yield_except"
    /\ produce_calls' = produce_calls + CallsProduce(run_pc)
    /\ UNCHANGED <<run_framework, run_plugin, run_component, run_pos>>
    /\ UNCHANGED orch_vars
    /\ UNCHANGED wf_vars
    /\ UNCHANGED stop_mark
    /\ UNCHANGED stop_requests

\* The consumer's task is cancelled while __anext__ waits inside the unit:
\* asyncio.CancelledError is thrown at the unit's await, ends the unit's
\* generator and is caught by line 147, which yields a stopped envelope.
runner_cancelled ==
    /\ InLoop
    /\ unit_pc' = "cancelled"
    /\ run_out' = Append(run_out, StoppedEvent(run_framework, run_component))
    /\ run_pc' = "yield_except"
    /\ produce_calls' = produce_calls + CallsProduce(run_pc)
    /\ UNCHANGED <<run_framework, run_plugin, run_component, run_pos>>
    /\ UNCHANGED orch_vars
    /\ UNCHANGED wf_vars
    /\ UNCHANGED stop_mark
    /\ UNCHANGED stop_requests

\* __anext__ after the stopped envelope of line 139 (`return`, line 143) or
\* after the envelope of an except clause (the function ends): the runner is
\* exhausted.
runner_finish ==
    /\ run_pc \in {"yield_stopped", "yield_except"}
    /\ run_pc' = "done"
    /\ UNCHANGED <<run_framework, run_plugin, run_component, run_pos, unit_pc, run_out,
                   produce_calls>>
    /\ UNCHANGED orch_vars
    /\ UNCHANGED wf_vars
    /\ UNCHANGED stop_mark
    /\ UNCHANGED stop_requests

NextRunner ==
    \/ \E f \in Names, u \in Units, c \in Components :
           runner_call(f, u, c) /\ Idle
    \/ runner_pull_event /\ Idle
    \/ runner_pull_end /\ Idle
    \/ runner_cancelled /\ Idle
    \/ runner_finish /\ Idle
    \/ \E f \in Names, o \in AwaitOutcomes : stop_framework(f, o) /\ Idle
    \/ \E f \in Names : restart_framework(f) /\ Idle

SpecRunner == Init /\ [][NextRunner]_vars


\* ----------------------------------------------------------- the multiplexer

\* What feed_queue iterates with `async for` (line 188): the asyncio.Task of
\* its pair.
TaskObjectKind == "Task"

\* `async for event in x`: an object with __aiter__ is iterated; for any
\* other object, an asyncio.Task included, the statement raises
\*   TypeError: 'async for' requires an object with __aiter__ method
async_for(kind) == IF kind = "async_iterable" THEN "iterates" ELSE "TypeError"

\* Queue items are the tuples (framework, event) and (framework, None); the
\* second component is a sequence holding the event, or the empty sequence
\* for None.
QueueEvent(framework, event) == [framework |-> framework, event |-> <<event>>]

QueueEnd(framework) == [framework |-> framework, event |-> <<>>]

\* str(e) of the TypeError `async for` raises.
AsyncForTypeError == "'async for' requires an object with __aiter__ method, got _asyncio.Task"

\* Lines 191-196: the error event feed_queue builds in `except Exception`.
TaskErrorEvent(framework) ==
    create_plugin_event(framework, "error", "framework_execution",
                        [error |-> AsyncForTypeError, error_type |-> "task_error"])

\* A feeder without the `finally` clause: after a fault only the error event
\* is put.
FeedItemsNoFinally(framework) ==
    <<QueueEvent(framework, TaskErrorEvent(framework))>>

\* What one feed_queue(framework, task) puts on the queue from its start to
\* its end (lines 186-198): `async for` over the Task raises at once, the
\* handler puts the error event, and `finally` puts the end-of-stream item.
FeedItems(framework) ==
    IF async_for(TaskObjectKind) = "TypeError"
    THEN <<QueueEvent(framework, TaskErrorEvent(framework)), QueueEnd(framework)>>
    ELSE \* an iterable task that yields nothing; never taken
         <<QueueEnd(framework)>>

\* Lines 233-236: cancel every feeder that is not done.
CancelFeeders(feeders) ==
    [i \in 1..Len(feeders) |-> IF feeders[i] = "pending" THEN "cancelled" ELSE feeders[i]]

\* Line 210, `while len(completed_frameworks) < total_frameworks`, with
\* total_frameworks = len(framework_tasks) (line 208).
LoopGoesOn(completed) == Cardinality(completed) < Len(framework_tasks)

\* No feeder is waiting for its first step.
AllFed == \A i \in 1..Len(feeder_tasks) : feeder_tasks[i] # "pending"

\* Calling _stream_from_multiple_tasks(framework_tasks) creates the
\* generator; its body has not started.  The list holds one (name, Task) pair
\* per element of the selection (lines 101-112 append one pair per element,
\* whether or not a name repeats).  Only the names are kept: the Task of a
\* pair is used at line 188 alone, where any Task has the same effect.  One
\* generator is followed from its creation to its end.
_stream_from_multiple_tasks(tasks) ==
    /\ mux_pc = "none"
    /\ mux_pc' = "created"
    /\ framework_tasks' = tasks
    /\ UNCHANGED <<feeder_tasks, event_queue, completed_frameworks, mux_out, queue_puts>>
    /\ UNCHANGED orch_vars
    /\ UNCHANGED wf_vars
    /\ UNCHANGED run_vars
    /\ UNCHANGED <<stop_mark, stop_requests>>

\* First __anext__, lines 183-213: the queue and one feeder task per pair is
\* created, completed_frameworks is empty, and the loop is entered and
\* suspends in wait_for(event_queue.get()); for an empty list the loop does
\* not run and the generator ends.
stream_start ==
    /\ mux_pc = "created"
    /\ event_queue' = <<>>
    /\ completed_frameworks' = {}
    /\ IF LoopGoesOn({})
       THEN /\ mux_pc' = "waiting"
            /\ feeder_tasks' = [i \in 1..Len(framework_tasks) |-> "pending"]
       ELSE /\ mux_pc' = "done"
            /\ feeder_tasks' = CancelFeeders([i \in 1..Len(framework_tasks) |-> "pending"])
    /\ UNCHANGED <<framework_tasks, mux_out, queue_puts>>
    /\ UNCHANGED orch_vars
    /\ UNCHANGED wf_vars
    /\ UNCHANGED run_vars
    /\ UNCHANGED <<stop_mark, stop_requests>>

\* The feeder task of pair i runs (lines 186-198).  The event loop runs
\* ready callbacks in the order they were scheduled, so the feeders take
\* their first step in list order once the generator is suspended, and a
\* feeder never suspends: the queue is unbounded and `async for` raises
\* before anything is awaited.
feed_queue(i) ==
    /\ mux_pc = "waiting"
    /\ i \in 1..Len(feeder_tasks)
    /\ feeder_tasks[i] = "pending"
    /\ \A j \in 1..(i - 1) : feeder_tasks[j] # "pending"
    /\ event_queue' = event_queue \o FeedItems(framework_tasks[i])
    /\ queue_puts' = queue_puts \o FeedItems(framework_tasks[i])
    /\ feeder_tasks' = [feeder_tasks EXCEPT ![i] = "done"]
    /\ UNCHANGED <<mux_pc, framework_tasks, completed_frameworks, mux_out>>
    /\ UNCHANGED orch_vars
    /\ UNCHANGED wf_vars
    /\ UNCHANGED run_vars
    /\ UNCHANGED <<stop_mark, stop_requests>>

\* event_queue.get() returns an item (lines 213-224).  The task wait_for
\* makes for get() was scheduled after the feeders, so it runs when they
\* have run.  An end-of-stream item adds its name to completed_frameworks
\* and the loop goes round (217-220); an event is mapped and yielded.
stream_get ==
    /\ mux_pc = "waiting"
    /\ AllFed
    /\ event_queue # <<>>
    /\ event_queue' = Tail(event_queue)
    /\ LET framework == Head(event_queue).framework
           event     == Head(event_queue).event
       IN  IF event = <<>>
           THEN /\ completed_frameworks' = completed_frameworks \cup {framework}
                /\ mux_pc' = IF LoopGoesOn(completed_frameworks \cup {framework})
                             THEN "waiting" ELSE "done"
                /\ feeder_tasks' = IF LoopGoesOn(completed_frameworks \cup {framework})
                                   THEN feeder_tasks ELSE CancelFeeders(feeder_tasks)
                /\ UNCHANGED mux_out
           ELSE /\ mux_out' = Append(mux_out, map_plugin_event_to_ui_event(event[1]))
                /\ mux_pc' = "yielded"
                /\ UNCHANGED <<completed_frameworks, feeder_tasks>>
    /\ UNCHANGED <<framework_tasks, queue_puts>>
    /\ UNCHANGED orch_vars
    /\ UNCHANGED wf_vars
    /\ UNCHANGED run_vars
    /\ UNCHANGED <<stop_mark, stop_requests>>

\* A timeout branch that takes the names it counted as finished out of the
\* Stopped-Set.
stream_timeout_discards ==
    /\ mux_pc = "waiting"
    /\ AllFed
    /\ event_queue = <<>>
    /\ LET completed == completed_frameworks \cup
                            {f \in SetOf(framework_tasks) : f \in stopped_frameworks}
       IN  /\ completed_frameworks' = completed
           /\ mux_pc' = IF LoopGoesOn(completed) THEN "waiting" ELSE "done"
           /\ feeder_tasks' = IF LoopGoesOn(completed)
                              THEN feeder_tasks ELSE CancelFeeders(feeder_tasks)
    /\ stopped_frameworks' = stopped_frameworks \ SetOf(framework_tasks)
    /\ UNCHANGED <<framework_tasks, event_queue, mux_out, queue_puts>>
    /\ UNCHANGED <<plugins, active_tasks>>
    /\ UNCHANGED wf_vars
    /\ UNCHANGED run_vars
    /\ UNCHANGED <<stop_mark, stop_requests>>

\* wait_for times out after a second with the queue empty (lines 226-231):
\* every name of the list found in the Stopped-Set is added to
\* completed_frameworks, and the loop goes round.
stream_timeout ==
    /\ mux_pc = "waiting"
    /\ AllFed
    /\ event_queue = <<>>
    /\ LET completed == completed_frameworks \cup
                            {f \in SetOf(framework_tasks) : f \in stopped_frameworks}
       IN  /\ completed_frameworks' = completed
           /\ mux_pc' = IF LoopGoesOn(completed) THEN "waiting" ELSE "done"
           /\ feeder_tasks' = IF LoopGoesOn(completed)
                              THEN feeder_tasks ELSE CancelFeeders(feeder_tasks)
    /\ UNCHANGED <<framework_tasks, event_queue, mux_out, queue_puts>>
    /\ UNCHANGED orch_vars
    /\ UNCHANGED wf_vars
    /\ UNCHANGED run_vars
    /\ UNCHANGED <<stop_mark, stop_requests>>

\* __anext__ after a yield of line 224: the loop condition is tested again;
\* the generator suspends in wait_for, or leaves the loop, cancels the
\* feeders that are not done and ends.
stream_resume ==
    /\ mux_pc = "yielded"
    /\ mux_pc' = IF LoopGoesOn(completed_frameworks) THEN "waiting" ELSE "done"
    /\ feeder_tasks' = IF LoopGoesOn(completed_frameworks)
                       THEN feeder_tasks ELSE CancelFeeders(feeder_tasks)
    /\ UNCHANGED <<framework_tasks, event_queue, completed_frameworks, mux_out, queue_puts>>
    /\ UNCHANGED orch_vars
    /\ UNCHANGED wf_vars
    /\ UNCHANGED run_vars
    /\ UNCHANGED <<stop_mark, stop_requests>>

\* What a step of SpecMux leaves alone.
IdleMux ==
    /\ UNCHANGED last_call
    /\ UNCHANGED stopping
    /\ UNCHANGED overlap
    /\ UNCHANGED mgr_vars

NextMux ==
    \/ \E tasks \in Selections : _stream_from_multiple_tasks(tasks) /\ IdleMux
    \/ stream_start /\ IdleMux
    \/ \E i \in 1..MaxSel : feed_queue(i) /\ IdleMux
    \/ stream_get /\ IdleMux
    \/ stream_timeout /\ IdleMux
    \/ stream_resume /\ IdleMux
    \/ \E f \in Names, o \in AwaitOutcomes : stop_framework(f, o) /\ Idle
    \/ \E f \in Names : restart_framework(f) /\ Idle

SpecMux == Init /\ [][NextMux]_vars


\* ------------------------------------------------------------------ claims

\* The session of the generator the caller holds is over: the stream ended
\* (StopAsyncIteration) or an exception came out of it.
Finished == wf_pc \in {"ended", "raised"}

\* The selection names only registered units, each once.
ValidSelection ==
    /\ SetOf(wf_selected) \subseteq DictKeySet(plugins)
    /\ \A i, j \in 1..Len(wf_selected) : wf_selected[i] = wf_selected[j] => i = j

\* The envelopes delivered to the caller that carry unit name f.
Delivered(f) == SelectSeq(wf_out, LAMBDA ev : ev.data.framework = f)

\* What the caller is to receive for the produce sequence of the unit
\* registered as f: each of its envelopes, forwarded.
Forwarded(f) ==
    LET seq == UnitSequence(f, wf_component, DictGet(plugins, f))
    IN  [i \in 1..Len(seq) |-> map_plugin_event_to_ui_event(seq[i])]

IsTerminal(ev) == ev.data.event_type \in TerminalKinds

Faulting(f) == DictGet(plugins, f).ending.how = "raise"

IsPrefix(a, b) == Len(a) <= Len(b) /\ SubSeq(b, 1, Len(a)) = a

\* C1: failure isolation.  In a session of two or more selected units of
\* which one faults, execute raises nothing to its caller, and when the
\* stream has ended every other selected unit's envelopes, up to and
\* including its terminal envelope, have been delivered.
C1_FailureIsolation ==
    (/\ Finished
     /\ ValidSelection
     /\ Len(wf_selected) >= 2
     /\ \E f \in SetOf(wf_selected) : Faulting(f))
    => /\ wf_raised = None
       /\ \A g \in SetOf(wf_selected) :
            ~Faulting(g) => Delivered(g) = Forwarded(g)

\* C2: per-unit order.  When a session is over, for every selected unit the
\* delivered envelopes carrying its name are exactly the sequence its produce
\* yields, in order, with at most one synthesized envelope appended: nothing
\* is reordered, duplicated or dropped.
C2_PerUnitOrder ==
    (Finished /\ ValidSelection)
    => \A f \in SetOf(wf_selected) :
         /\ IsPrefix(Forwarded(f), Delivered(f))
         /\ Len(Delivered(f)) <= Len(Forwarded(f)) + 1

\* C3: for a valid selection of N >= 1 units, when the session is over a
\* terminal envelope has been delivered for each selected unit.
C3_TerminalPerUnit ==
    (Finished /\ ValidSelection /\ Len(wf_selected) >= 1)
    => \A f \in SetOf(wf_selected) :
         \E i \in 1..Len(Delivered(f)) : IsTerminal(Delivered(f)[i])

\* C5: the only selected unit A was stopped after its execute began (the
\* Stopped-Set is emptied when execute begins, so A is in it only by a later
\* stop): the stream ends, raising nothing, and the last envelope delivered
\* is A's envelope of kind stopped.
C5_SingleUnitStopEndsWithStopped ==
    (/\ Finished
     /\ ValidSelection
     /\ Len(wf_selected) = 1
     /\ wf_selected[1] \in stopped_frameworks)
    => /\ wf_pc = "ended"
       /\ wf_out # <<>>
       /\ wf_out[Len(wf_out)].data.framework = wf_selected[1]
       /\ wf_out[Len(wf_out)].data.event_type = "stopped"

\* C6: in a session with units A and B, A stopped after execute began and B
\* not, B's whole produce sequence, its terminal envelope included, is
\* delivered, and no stopped envelope stands in for an envelope of B.
C6_StopLeavesOthersIntact ==
    (/\ Finished
     /\ ValidSelection
     /\ Len(wf_selected) = 2
     /\ wf_selected[1] \in stopped_frameworks
     /\ wf_selected[2] \notin stopped_frameworks)
    => /\ IsPrefix(Forwarded(wf_selected[2]), Delivered(wf_selected[2]))
       /\ \A i \in 1..Len(Delivered(wf_selected[2])) :
            Delivered(wf_selected[2])[i].data.event_type # "stopped"

\* The names of the selection that are not registered.
Unregistered == SetOf(wf_selected) \ DictKeySet(plugins)

\* The first __anext__ of the generator has run.
Started == wf_pc \notin {"none", "created"}

RunnerTerminals == {i \in 1..Len(run_out) : run_out[i].type \in TerminalKinds}

\* C4: once stop(name) has been called while name's runner was running (and
\* name has not been restarted), the runner yields no further streaming
\* envelope, and the first terminal envelope it yields afterwards has kind
\* stopped.
C4_StopThenStopped ==
    stop_mark.seen
    => /\ \A i \in (stop_mark.at + 1)..Len(run_out) : run_out[i].type # "streaming"
       /\ \A i \in (stop_mark.at + 1)..Len(run_out) :
            (/\ run_out[i].type \in TerminalKinds
             /\ \A j \in (stop_mark.at + 1)..(i - 1) : run_out[j].type \notin TerminalKinds)
            => run_out[i].type = "stopped"

\* C7: when a unit's run is over, the envelopes yielded for it contain
\* exactly one terminal envelope (complete, error or stopped), and it is the
\* last one.
C7_ExactlyOneTerminalLast ==
    run_pc = "done"
    => /\ Cardinality(RunnerTerminals) = 1
       /\ RunnerTerminals = {Len(run_out)}

\* C8: when the unit's produce sequence ended normally without a terminal
\* envelope, the runner has yielded one envelope of kind error, as its last,
\* by the time it is finished.
C8_SilentEndGetsError ==
    (/\ run_pc = "done"
     /\ unit_pc = "returned"
     /\ \A i \in 1..Len(run_plugin.events) : run_plugin.events[i] \notin TerminalKinds)
    => /\ run_out # <<>>
       /\ run_out[Len(run_out)].type = "error"

\* C9: when the unit's produce has raised, the runner has yielded every
\* envelope the unit produced and then exactly one more, an error envelope
\* for the unit, and yields nothing after it; the envelope's error_type is
\* plugin_error for a PluginError or a subclass of it and unexpected_error
\* for any other fault, its message is the fault's, and it carries the
\* granularity.
C9_FaultYieldsOneErrorEnvelope ==
    unit_pc = "raised"
    => LET e == run_plugin.ending.fault
           n == Len(run_plugin.events)
       IN  /\ run_pc \in {"yield_except", "done"}
           /\ Len(run_out) = n + 1
           /\ SubSeq(run_out, 1, n) = UnitSequence(run_framework, run_component, run_plugin)
           /\ run_out[n + 1].framework = run_framework
           /\ run_out[n + 1].type = "error"
           /\ run_out[n + 1].component = run_component
           /\ run_out[n + 1].data.error_type =
                IF e.cls \in {"PluginError", "PluginExecutionError", "PluginConfigurationError"}
                THEN "plugin_error" ELSE "unexpected_error"
           /\ \E k \in 1..Len(run_out[n + 1].data.error) :
                run_out[n + 1].data.error[k] = e.message

\* A unit raised a subclass of PluginError after yielding an event, and its
\* runner is exhausted.
C9_Witness ==
    /\ unit_pc = "raised"
    /\ run_pc = "done"
    /\ run_plugin.ending.fault.cls = "PluginExecutionError"
    /\ Len(run_plugin.events) >= 1


\* C11: no partial execution on an invalid selection.  The first step of an
\* execute whose selection names an unregistered unit goes to the one error
\* envelope without reaching the loop that starts runners: nothing is raised
\* by create_task, no handle is added or removed, and no runner or unit
\* generator is created or stepped.
C11_NoPartialExecution ==
    [][(wf_pc = "created" /\ wf_pc' # "created" /\ Unregistered # {})
       => /\ wf_pc' = "yield_error"
          /\ wf_raised' = None
          /\ active_tasks' = active_tasks
          /\ UNCHANGED run_vars]_vars

\* The error envelope of a selection that mixes a registered and an
\* unregistered name has been yielded, the generator is suspended on it, and
\* no handle is held.
C11_Witness ==
    /\ wf_pc = "yield_error"
    /\ Unregistered # {}
    /\ SetOf(wf_selected) \cap DictKeySet(plugins) # {}
    /\ active_tasks = <<>>
    /\ run_pc = "none"

\* The selection names a unit more than once.
HasDuplicate == \E i, j \in 1..Len(wf_selected) : i # j /\ wf_selected[i] = wf_selected[j]

\* C12: a selection of registered names that contains a name twice is
\* rejected before execution starts: execute reports the selection as
\* invalid (InvalidSelection, or the error envelope it uses for invalid
\* selections) without reaching the creation of a runner task, and ends.
C12_DuplicateSelectionRejected ==
    (Started /\ Unregistered = {} /\ HasDuplicate)
    => /\ wf_raised # "TypeError"
       /\ \/ wf_raised = "InvalidSelection"
          \/ /\ wf_pc \in {"yield_error", "ended"}
             /\ Len(wf_out) = 1
             /\ wf_out[1].data.event_type = "error"
       /\ active_tasks = <<>>

\* C13: selecting zero units makes execute yield exactly one envelope, of
\* kind error, and then end the stream.
C13_EmptySelectionYieldsOneError ==
    (Finished /\ wf_selected = <<>>)
    => /\ wf_pc = "ended"
       /\ Len(wf_out) = 1
       /\ wf_out[1].data.event_type = "error"

\* C14: no step replaces the unit registered under a name: a register of a
\* name the registry already holds leaves the registry as it was.
C14_RegisterKeepsExisting ==
    [][\A f \in DictKeySet(plugins) :
          /\ f \in DictKeySet(plugins')
          /\ DictGet(plugins', f) = DictGet(plugins, f)]_vars


\* C15: at every moment the Stopped-Set is exactly the set of names for which
\* stop was called since the most recent execute began to run and which were
\* not restarted since, and is_framework_stopped(name) is true exactly for
\* those names.
C15_StoppedSetIsStopRequests ==
    /\ stopped_frameworks = stop_requests
    /\ \A f \in Names : is_framework_stopped(f) <=> f \in stop_requests

\* An execute has begun, and since then one name was stopped and is reported
\* stopped while a registered name is not.
C15_Witness ==
    /\ Started
    /\ \E f \in Names : f \in stop_requests /\ is_framework_stopped(f)
    /\ \E g \in DictKeySet(plugins) : g \notin stop_requests /\ ~is_framework_stopped(g)


\* ------------------------------------------- status and the task handles

\* Lines 258-261 with the test of task.done() inverted.
TaskStatusInverted(task) == IF task.done THEN "running" ELSE "completed"

\* get_framework_status lines 257-261: the state reported for a handle.
TaskStatus(task) == IF task.done THEN "completed" ELSE "running"

\* get_framework_status lines 254-263: the state of one registered name.
FrameworkStatus(framework) ==
    IF framework \in stopped_frameworks THEN "stopped"
    ELSE IF framework \in DictKeySet(active_tasks)
         THEN TaskStatus(DictGet(active_tasks, framework))
         ELSE "ready"

\* MultiFrameworkOrchestrator.get_framework_status: the dict built over
\* self.plugins.keys(), in the registry's order.
get_framework_status ==
    [i \in 1..Len(plugins) |-> <<plugins[i][1], FrameworkStatus(plugins[i][1])>>]

\* The handles active_tasks can hold when a method is called: one Task per
\* name, done or not.  execute_workflow itself never stores one (line 106
\* raises before line 111), so the methods that read active_tasks (lines
\* 47-55, 118-121, 256-261) are exercised on dicts that are handed to them.
Handles == [done : BOOLEAN]

HandleDicts ==
    {d \in SeqUpTo(Names \X Handles, Cardinality(Names)) :
        \A i, j \in 1..Len(d) : d[i][1] = d[j][1] => i = j}

\* An orchestrator with an empty registry and Stopped-Set whose active_tasks
\* holds any handles.
InitHandles ==
    /\ plugins = <<>>
    /\ active_tasks \in HandleDicts
    /\ stopped_frameworks = {}
    /\ wf_pc = "none"
    /\ wf_selected = <<>>
    /\ wf_component = DefaultComponent
    /\ wf_out = <<>>
    /\ wf_raised = None
    /\ run_pc = "none"
    /\ run_framework = None
    /\ run_plugin = GoodUnit
    /\ run_component = DefaultComponent
    /\ run_pos = 0
    /\ unit_pc = "none"
    /\ run_out = <<>>
    /\ produce_calls = 0
    /\ stop_mark = [seen |-> FALSE, at |-> 0]
    /\ stop_requests = {}
    /\ last_call = NoCall
    /\ InitMux
    /\ stopping = {}
    /\ overlap = NoOverlap
    /\ InitManager

\* A call of get_framework_status: it changes nothing and returns the dict.
get_framework_status_call ==
    /\ UNCHANGED orch_vars
    /\ UNCHANGED wf_vars
    /\ UNCHANGED run_vars
    /\ UNCHANGED <<stop_mark, stop_requests>>

\* What last_call records of a call stop_framework(framework).
StopRecord(framework, outcome) ==
    [op |-> "stop", name |-> framework,
     was_stopped |-> framework \in stopped_frameworks,
     had_handle |-> framework \in DictKeySet(active_tasks),
     was_done |-> IF framework \in DictKeySet(active_tasks)
                  THEN DictGet(active_tasks, framework).done
                  ELSE FALSE,
     task_done |-> IF framework \in DictKeySet(active_tasks)
                   THEN StoppedTask(framework, outcome).done
                   ELSE FALSE,
     raised |-> StopRaises(framework, outcome),
     after_stop |-> FALSE,
     status |-> <<>>]

\* What last_call records of a call restart_framework(framework);
\* after_stop: the call before it was a stop_framework(framework) that
\* returned, and task_done: that stop found a task and left it done.
RestartRecord(framework) ==
    [op |-> "restart", name |-> framework,
     was_stopped |-> framework \in stopped_frameworks,
     had_handle |-> framework \in DictKeySet(active_tasks),
     was_done |-> FALSE,
     task_done |-> (last_call.op = "stop" /\ last_call.name = framework
                    /\ ~last_call.raised /\ last_call.task_done),
     raised |-> FALSE,
     after_stop |-> (last_call.op = "stop" /\ last_call.name = framework
                     /\ ~last_call.raised),
     status |-> <<>>]

\* What last_call records of a call get_framework_status().
StatusRecord == [NoCall EXCEPT !.op = "status", !.status = get_framework_status]

\* What a step of SpecHandles leaves alone.
IdleHandles ==
    /\ UNCHANGED mux_vars
    /\ UNCHANGED stopping
    /\ UNCHANGED overlap
    /\ UNCHANGED mgr_vars

NextHandles ==
    \/ \E f \in Names : register_plugin(f, GoodUnit) /\ last_call' = NoCall /\ IdleHandles
    \/ \E f \in Names, o \in AwaitOutcomes :
           stop_framework(f, o) /\ last_call' = StopRecord(f, o) /\ IdleHandles
    \/ \E f \in Names : restart_framework(f) /\ last_call' = RestartRecord(f) /\ IdleHandles
    \/ get_framework_status_call /\ last_call' = StatusRecord /\ IdleHandles

SpecHandles == InitHandles /\ [][NextHandles]_vars

\* The name has a runner handle whose task has not finished.
HasUnfinishedRunner(f) ==
    \E i \in 1..Len(active_tasks) : active_tasks[i][1] = f /\ ~active_tasks[i][2].done

\* The name has a runner handle whose task has finished.
HasFinishedRunner(f) ==
    \E i \in 1..Len(active_tasks) : active_tasks[i][1] = f /\ active_tasks[i][2].done

\* C16: status() returns one state per registered unit, computed by the
\* priority: stopped if the name is in the Stopped-Set, otherwise running if
\* it has an unfinished runner, otherwise completed if it has a finished
\* runner, otherwise ready.
C16_StatusPriority ==
    last_call.op = "status"
    => /\ Len(last_call.status) = Len(plugins)
       /\ DictKeySet(last_call.status) = DictKeySet(plugins)
       /\ \A f \in DictKeySet(plugins) :
            DictGet(last_call.status, f) =
                IF f \in stopped_frameworks THEN "stopped"
                ELSE IF HasUnfinishedRunner(f) THEN "running"
                ELSE IF HasFinishedRunner(f) THEN "completed"
                ELSE "ready"

\* status() was called while one registered unit's runner had finished and
\* another registered unit's runner was still running: the first is reported
\* completed, the second running.
C16_Witness ==
    /\ last_call.op = "status"
    /\ \E f, g \in DictKeySet(plugins) :
          /\ HasFinishedRunner(f) /\ f \notin stopped_frameworks
          /\ HasUnfinishedRunner(g) /\ g \notin stopped_frameworks
          /\ DictGet(last_call.status, f) = "completed"
          /\ DictGet(last_call.status, g) = "running"


\* C17: restart(name) for a name that is not in the Stopped-Set changes
\* neither the Stopped-Set nor the active handles nor the registry; and
\* after any restart(name) the name is not in the Stopped-Set, so that a
\* second restart in a row is such a no-op and two have the effect of one.
C17_RestartNotStoppedIsNoOp ==
    [][\A f \in Names :
          restart_framework(f)
          => /\ f \notin stopped_frameworks'
             /\ f \notin stopped_frameworks => UNCHANGED orch_vars]_vars

\* restart was called for a name that was not stopped, on an orchestrator
\* that holds handles, registered units and another, stopped, name.
C17_Witness ==
    /\ last_call.op = "restart"
    /\ ~last_call.was_stopped
    /\ ~last_call.raised
    /\ active_tasks # <<>>
    /\ plugins # <<>>
    /\ stopped_frameworks # {}

\* C18: restart(name) removes name from the Stopped-Set and does nothing
\* else: the registry and the active handles are unchanged, no generator of
\* execute or of a runner or unit is created or stepped and no envelope is
\* yielded; and right after stop(name) followed by restart(name), status
\* reports a registered name as ready.
C18_RestartOnlyClearsFlag ==
    [][\A f \in Names :
          restart_framework(f)
          => /\ stopped_frameworks' = stopped_frameworks \ {f}
             /\ UNCHANGED <<plugins, active_tasks>>
             /\ UNCHANGED wf_vars
             /\ UNCHANGED run_vars
             /\ (/\ last_call.op = "stop"
                 /\ last_call.name = f
                 /\ ~last_call.raised
                 /\ f \in DictKeySet(plugins))
                => DictGet(get_framework_status', f) = "ready"]_vars

\* A registered name whose runner was active was stopped and then
\* restarted: it is reported ready, and the other handles are still held.
C18_Witness ==
    /\ last_call.op = "restart"
    /\ last_call.after_stop
    /\ last_call.task_done
    /\ last_call.name \in DictKeySet(plugins)
    /\ FrameworkStatus(last_call.name) = "ready"
    /\ active_tasks # <<>>

C22_StreamEndsWhenAllSignalled ==
    (Finished /\ ValidSelection /\ Len(wf_selected) >= 1)
    => /\ wf_pc = "ended"
       /\ wf_raised = None
       /\ \A f \in SetOf(wf_selected) :
            f \in completed_frameworks \/ f \in stopped_frameworks

stop_framework_begin(framework) ==
    /\ framework \notin stopping
    /\ framework \in DictKeySet(active_tasks)
    /\ ~DictGet(active_tasks, framework).done
    /\ stopped_frameworks' = stopped_frameworks \cup {framework}
    /\ stopping' = stopping \cup {framework}
    /\ stop_requests' = stop_requests \cup {framework}
    /\ UNCHANGED <<plugins, active_tasks>>
    /\ UNCHANGED wf_vars
    /\ UNCHANGED run_vars
    /\ UNCHANGED stop_mark

\* Lines 52-55: the task is done and `await task` ends; the entry is deleted
\* unless the await raised something other than CancelledError.
stop_framework_end(framework, outcome) ==
    /\ framework \in stopping
    /\ stopping' = stopping \ {framework}
    /\ active_tasks' = IF outcome = "raised"
                       THEN DictSet(active_tasks, framework,
                                    CancelAndAwait(DictGet(active_tasks, framework), outcome))
                       ELSE DictDel(active_tasks, framework)
    /\ UNCHANGED <<plugins, stopped_frameworks>>
    /\ UNCHANGED wf_vars
    /\ UNCHANGED run_vars
    /\ UNCHANGED <<stop_mark, stop_requests>>

\* What a step of SpecStopping leaves alone.
IdleStopping ==
    /\ UNCHANGED mux_vars
    /\ UNCHANGED last_call
    /\ UNCHANGED overlap
    /\ UNCHANGED mgr_vars

\* The methods of SpecHandles, with a stop that suspends followed through
\* its suspension.  A stop for a name without an unfinished task does not
\* reach line 52 and is one step.
NextStopping ==
    \/ \E f \in Names : register_plugin(f, GoodUnit) /\ Idle
    \/ \E f \in Names : stop_framework_begin(f) /\ IdleStopping
    \/ \E f \in Names, o \in AwaitOutcomes : stop_framework_end(f, o) /\ IdleStopping
    \/ \E f \in Names, o \in AwaitOutcomes :
           ~HasUnfinishedRunner(f) /\ stop_framework(f, o) /\ Idle
    \/ \E f \in Names : restart_framework(f) /\ Idle
    \/ get_framework_status_call /\ Idle

SpecStopping == InitHandles /\ [][NextStopping]_vars

C25_StoppedUnitRunsAgain ==
    [][(/\ wf_pc = "created"
        /\ wf_pc' # "created"
        /\ ValidSelection
        /\ \E f \in SetOf(wf_selected) : f \in stopped_frameworks)
       => /\ stopped_frameworks' \cap SetOf(wf_selected) = {}
          /\ wf_raised' = None
          /\ \A f \in SetOf(wf_selected) : f \in DictKeySet(active_tasks')]_vars

\* --------------------------------------------------- overlapping executes

\* Nothing keeps a caller from calling execute_workflow while the stream of
\* an earlier call is open (suspended at a yield).  Each call makes its own
\* generator; self.stopped_frameworks and self.active_tasks belong to the
\* orchestrator (lines 17-20) and are shared by them.  SpecOverlap follows
\* the later generator and records in overlap whether the earlier stream was
\* open when the later one was created, and which names the later one's
\* first step took out of the Stopped-Set.
execute_workflow_again(selected_frameworks, component) ==
    /\ execute_workflow(selected_frameworks, component)
    /\ overlap' = [open |-> wf_pc = "yield_error", lost |-> {}]

wf_start_again ==
    /\ wf_start
    /\ overlap' = [overlap EXCEPT !.lost = IF overlap.open
                                           THEN stopped_frameworks \ stopped_frameworks'
                                           ELSE {}]

\* What a step of SpecOverlap leaves alone.
IdleOverlap ==
    /\ UNCHANGED mux_vars
    /\ UNCHANGED last_call
    /\ UNCHANGED stopping
    /\ UNCHANGED mgr_vars

NextOverlap ==
    \/ \E f \in Names : register_plugin(f, GoodUnit) /\ Idle
    \/ \E f \in Names, o \in AwaitOutcomes : stop_framework(f, o) /\ Idle
    \/ \E f \in Names : restart_framework(f) /\ Idle
    \/ \E sel \in Selections : execute_workflow_again(sel, DefaultComponent) /\ IdleOverlap
    \/ wf_start_again /\ IdleOverlap
    \/ wf_return /\ Idle

SpecOverlap == Init /\ [][NextOverlap]_vars

\* C26 as stated: each of two overlapping executes has its own Stopped-Set
\* scope.  When the body of an execute begins while the stream of the
\* execute before it is open, no name stopped during that earlier session
\* (and not restarted) is taken out of the Stopped-Set.
C26_OwnStoppedSetScope ==
    [][(wf_pc = "created" /\ wf_pc' # "created" /\ overlap.open)
       => stop_requests \subseteq stopped_frameworks']_vars

\* C26, amended: overlapping executes share the orchestrator's one
\* Stopped-Set.  When the body of an execute begins, also while the stream
\* of the execute before it is open, the Stopped-Set is emptied, whichever
\* names the two selections hold; the registry and the handles are left as
\* they are, and what the step yields names no unit.
C26_SharedStoppedSet ==
    [][(wf_pc = "created" /\ wf_pc' # "created" /\ overlap.open)
       => /\ stopped_frameworks' = {}
          /\ plugins' = plugins
          /\ DictKeySet(active_tasks) \subseteq DictKeySet(active_tasks')
          /\ \A i \in 1..Len(wf_out') : wf_out'[i].data.framework = "orchestrator"]_vars

\* The body of an execute began while the earlier stream was open, and took
\* out of the Stopped-Set a name that the later execute does not select.
C26_Witness ==
    /\ overlap.open
    /\ Started
    /\ \E f \in overlap.lost : f \notin SetOf(wf_selected)

\* The items the multiplexer has taken from its queue, oldest first.
Consumed == SubSeq(queue_puts, 1, Len(queue_puts) - Len(event_queue))

\* The events among them (the items that are not end-of-stream items).
ConsumedEvents == SelectSeq(Consumed, LAMBDA item : item.event # <<>>)

\* C27: every envelope is consumed once and forwarded unchanged.  The queue
\* holds exactly the items put and not yet taken, in order; the envelopes
\* yielded are, one for one and in order, the events taken from the queue;
\* and each yielded record carries the unit name, kind, granularity, payload
\* and timestamp of its event, with agent_key the unit name, an underscore
\* and the granularity.
C27_ConsumedOnceForwardedUnchanged ==
    /\ Len(event_queue) <= Len(queue_puts)
    /\ event_queue = SubSeq(queue_puts, Len(queue_puts) - Len(event_queue) + 1,
                            Len(queue_puts))
    /\ Len(mux_out) = Len(ConsumedEvents)
    /\ \A i \in 1..Len(mux_out) :
          LET event == ConsumedEvents[i].event[1]
              ui    == mux_out[i]
          IN  /\ event.framework = ConsumedEvents[i].framework
              /\ ui.type = "multi_agent_analysis"
              /\ ui.data.framework = event.framework
              /\ ui.data.event_type = event.type
              /\ ui.data.component = event.component
              /\ ui.data.stream_event = event.data
              /\ ui.data.timestamp = event.timestamp
              /\ ui.data.agent_key = <<event.framework, "_", event.component>>

\* The stream over two pairs with different names has ended, having yielded
\* an envelope for each, and every item put was taken.
C27_Witness ==
    /\ mux_pc = "done"
    /\ Len(mux_out) = 2
    /\ mux_out[1].data.framework # mux_out[2].data.framework
    /\ event_queue = <<>>
    /\ Len(queue_puts) = 4

\* The plugin registered as f raises for the component before it yields.
Unsupporting(f) == DictGet(plugins, f) = UnsupportingUnit

\* C28: in a session with a valid selection in which a unit does not support
\* the granularity asked for, execute raises nothing; exactly one envelope
\* is delivered for that unit, of kind error with error_type plugin_error;
\* and every other selected unit that runs to its end has its whole sequence
\* delivered.
C28_UnsupportedGranularityIsOneError ==
    (/\ Finished
     /\ ValidSelection
     /\ \E f \in SetOf(wf_selected) : Unsupporting(f))
    => /\ wf_raised = None
       /\ \A f \in SetOf(wf_selected) :
            IF Unsupporting(f)
            THEN /\ Len(Delivered(f)) = 1
                 /\ Delivered(f)[1].data.event_type = "error"
                 /\ Delivered(f)[1].data.stream_event.error_type = "plugin_error"
            ELSE ~Faulting(f) => Delivered(f) = Forwarded(f)

\* ------------------------------------------------------- the core as a whole

\* A call of is_framework_stopped (lines 35-37): it reads the Stopped-Set.
is_framework_stopped_call(framework) ==
    /\ is_framework_stopped(framework) \in BOOLEAN
    /\ UNCHANGED orch_vars
    /\ UNCHANGED wf_vars
    /\ UNCHANGED run_vars
    /\ UNCHANGED <<stop_mark, stop_requests>>

\* A call of get_available_frameworks (lines 31-33): it reads the registry.
get_available_frameworks_call ==
    /\ Len(get_available_frameworks) = Len(plugins)
    /\ UNCHANGED orch_vars
    /\ UNCHANGED wf_vars
    /\ UNCHANGED run_vars
    /\ UNCHANGED <<stop_mark, stop_requests>>

\* The one name the whole core is run with.
CoreNames == {"openhands"}

\* The selections and task lists over it; a name can repeat.
CoreLists == SeqUpTo(CoreNames, MaxSel)

\* Every operation of the orchestrator together with a runner and a
\* multiplexer generator, each stepped by its own consumer, over one name.
NextCore ==
    \/ \E f \in CoreNames : register_plugin(f, GoodUnit) /\ Idle
    \/ \E f \in CoreNames, o \in AwaitOutcomes : stop_framework(f, o) /\ Idle
    \/ \E f \in CoreNames : restart_framework(f) /\ Idle
    \/ get_framework_status_call /\ Idle
    \/ \E f \in CoreNames : is_framework_stopped_call(f) /\ Idle
    \/ get_available_frameworks_call /\ Idle
    \/ \E sel \in CoreLists : execute_workflow(sel, DefaultComponent) /\ Idle
    \/ wf_start /\ Idle
    \/ wf_return /\ Idle
    \/ \E f \in CoreNames, u \in SampleUnits : runner_call(f, u, DefaultComponent) /\ Idle
    \/ runner_pull_event /\ Idle
    \/ runner_pull_end /\ Idle
    \/ runner_cancelled /\ Idle
    \/ runner_finish /\ Idle
    \/ \E tasks \in CoreLists : _stream_from_multiple_tasks(tasks) /\ IdleMux
    \/ stream_start /\ IdleMux
    \/ \E i \in 1..MaxSel : feed_queue(i) /\ IdleMux
    \/ stream_get /\ IdleMux
    \/ stream_timeout /\ IdleMux
    \/ stream_resume /\ IdleMux

SpecCore == Init /\ [][NextCore]_vars

\* C29: a step that changes the Stopped-Set is a step of stop, of restart or
\* of the start of execute's body; a step that changes the registry is a
\* step of register.  No step of the runner, of a feeder, of the multiplexer
\* loop, of status, of is_framework_stopped or of get_available_frameworks
\* changes either.
C29_OnlyStopRestartExecuteWrite ==
    [][/\ stopped_frameworks' # stopped_frameworks
          => \/ \E f \in Names, o \in AwaitOutcomes : stop_framework(f, o)
             \/ \E f \in Names : restart_framework(f)
             \/ wf_start
       /\ plugins' # plugins
          => \E f \in Names : \E p \in RegisteredUnits(f) : register_plugin(f, p)]_vars

\* A runner has read the Stopped-Set and yielded its stopped envelope, a
\* multiplexer has run to its end, and the name is still in the Stopped-Set
\* of an orchestrator with a registered unit.
C29_Witness ==
    /\ run_pc = "yield_stopped"
    /\ run_framework \in stopped_frameworks
    /\ mux_pc = "done"
    /\ mux_out # <<>>
    /\ plugins # <<>>

\* C30: when a session with a valid selection is over, every envelope
\* delivered carries the name of a selected unit, and every selected unit
\* whose produce sequence has at least one envelope has an envelope among
\* those delivered.
C30_EverySelectedUnitRepresented ==
    (Finished /\ ValidSelection)
    => /\ \A i \in 1..Len(wf_out) : wf_out[i].data.framework \in SetOf(wf_selected)
       /\ \A f \in SetOf(wf_selected) :
            Len(DictGet(plugins, f).events) >= 1 => Delivered(f) # <<>>

\* The calls of the produce of the unit registered as f that runners have
\* made: those of the runner followed, if it runs f.
SessionProduceCalls(f) == IF run_framework = f THEN produce_calls ELSE 0

\* C31: when a session with a valid selection of one or more units is over,
\* the produce of each selected unit has been invoked exactly once, whether
\* the unit failed, was stopped or ran to its end.
C31_ProduceInvokedOnce ==
    (Finished /\ ValidSelection /\ Len(wf_selected) >= 1)
    => \A f \in SetOf(wf_selected) : SessionProduceCalls(f) = 1

\* The feeders that have run; they run in list order.
FedCount == Cardinality({i \in 1..Len(feeder_tasks) : feeder_tasks[i] = "done"})

C33_StoppedUnitEnvelopeNotForwarded ==
    [][/\ (run_pos' = run_pos + 1 /\ run_framework \in stopped_frameworks)
          => /\ run_out' = Append(run_out, StoppedByUserEvent(run_framework, run_component))
             /\ run_out'[Len(run_out')].type = "stopped"
             /\ run_out'[Len(run_out')].framework = run_framework
             /\ run_out'[Len(run_out')] #
                    UnitEvent(run_framework, run_component, run_plugin, run_pos + 1)
             /\ run_pc' = "yield_stopped"
       /\ run_pc = "yield_stopped"
          => /\ run_out' = run_out
             /\ run_pc' \in {"yield_stopped", "done"}]_vars

\* The unit's second envelope, of kind complete or error, reached the runner
\* while the unit was stopped: the first envelope was forwarded, the second
\* was replaced by the stopped envelope, and the runner was stepped to its
\* end.
C33_Witness ==
    /\ run_pc = "done"
    /\ run_pos = 2
    /\ run_plugin.events[2] \in {"complete", "error"}
    /\ Len(run_out) = 2
    /\ run_out[1] = UnitEvent(run_framework, run_component, run_plugin, 1)
    /\ run_out[2] = StoppedByUserEvent(run_framework, run_component)

\* ------------------------------------- stop_framework and the clean-up

\* The task a suspended stop_framework waits for runs to its end, so that
\* task.done() is true; the stop has not yet been resumed.
task_ends(framework) ==
    /\ framework \in stopping
    /\ framework \in DictKeySet(active_tasks)
    /\ ~DictGet(active_tasks, framework).done
    /\ active_tasks' = DictSet(active_tasks, framework,
                               CancelAndAwait(DictGet(active_tasks, framework), "cancelled"))
    /\ UNCHANGED <<plugins, stopped_frameworks>>
    /\ UNCHANGED wf_vars
    /\ UNCHANGED run_vars
    /\ UNCHANGED <<stop_mark, stop_requests>>
    /\ UNCHANGED stopping

\* The suspended stop_framework is resumed once its task is done and the
\* await has ended without an exception of the task (lines 52-54), and line
\* 55 runs: `del self.active_tasks[framework]` deletes the entry, and raises
\* KeyError when the entry is no longer there.
stop_framework_resume(framework) ==
    /\ framework \in stopping
    /\ framework \in DictKeySet(active_tasks) => DictGet(active_tasks, framework).done
    /\ stopping' = stopping \ {framework}
    /\ active_tasks' = DictDel(active_tasks, framework)
    /\ last_call' = [NoCall EXCEPT !.op = "stop", !.name = framework,
                                   !.had_handle = TRUE, !.task_done = TRUE,
                                   !.raised = framework \notin DictKeySet(active_tasks)]
    /\ UNCHANGED <<plugins, stopped_frameworks>>
    /\ UNCHANGED wf_vars
    /\ UNCHANGED run_vars
    /\ UNCHANGED <<stop_mark, stop_requests>>

\* What a step of SpecStopRace other than the resumption leaves alone.
IdleStopRace ==
    /\ UNCHANGED mux_vars
    /\ UNCHANGED overlap
    /\ last_call' = NoCall
    /\ UNCHANGED mgr_vars

\* An orchestrator that holds task handles: stop_framework suspends, its
\* task ends, and before the stop is resumed an execute_workflow may run to
\* the clean-up of lines 118-121.  With the handles handed in, the execute
\* that reaches the clean-up is the one with the empty selection.
NextStopRace ==
    \/ \E f \in Names : stop_framework_begin(f) /\ IdleStopRace
    \/ \E f \in Names : task_ends(f) /\ IdleStopRace
    \/ \E f \in Names : stop_framework_resume(f) /\ UNCHANGED mux_vars /\ UNCHANGED overlap
                        /\ UNCHANGED mgr_vars
    \/ execute_workflow(<<>>, DefaultComponent) /\ IdleStopRace /\ UNCHANGED stopping
    \/ wf_start /\ IdleStopRace /\ UNCHANGED stopping

SpecStopRace == InitHandles /\ [][NextStopRace]_vars

C35_RejectedExecuteClearsStoppedSet ==
    [][(wf_pc = "created" /\ wf_pc' # "created" /\ Unregistered # {})
       => /\ stopped_frameworks' = {}
          /\ wf_pc' = "yield_error"
          /\ wf_raised' = None
          /\ UNCHANGED <<plugins, active_tasks>>
          /\ \A f \in DictKeySet(plugins) :
                FrameworkStatus(f) = "stopped"
                => /\ FrameworkStatus(f)' \in {"ready", "running", "completed"}
                   /\ f \notin DictKeySet(active_tasks) => FrameworkStatus(f)' = "ready"]_vars

\* An execute was rejected for an unregistered name, and its first step took
\* a registered name out of the Stopped-Set, which status now reports ready.
C35_Witness ==
    /\ wf_pc = "yield_error"
    /\ Unregistered # {}
    /\ \E f \in overlap.lost : f \in DictKeySet(plugins) /\ FrameworkStatus(f) = "ready"

\* ------------------------------------------------- the integration manager
\* src/plugin_integration.py, PluginIntegrationManager: the orchestrator's
\* one caller in the application.  It owns a MultiFrameworkOrchestrator and
\* the list active_frameworks.

\* The names callers hand to the manager: the plugin names and the built-in
\* workflow's name.
ManagerNames == Names \cup {"llamaindex"}

ManagerLists == SeqUpTo(ManagerNames, MaxSel)

\* _register_plugins: the three plugins are registered in this order, each
\* unless the import of its dependencies raised ImportError.
RegistrationOrder == <<"openhands", "langchain", "crewai">>

_register_plugins(installed) ==
    LET names == SelectSeq(RegistrationOrder, LAMBDA f : f \in installed)
    IN  [i \in 1..Len(names) |-> <<names[i], GoodUnit>>]

\* The sets of plugins whose dependencies are installed that are followed:
\* two of the three, one, and none.
InstalledSets == {{"openhands", "langchain"}, {"openhands"}, {}}

\* PluginIntegrationManager.__init__: a new orchestrator with the plugins
\* whose dependencies are installed, and the active list ["llamaindex"].
InitSession ==
    /\ plugins \in {_register_plugins(installed) : installed \in InstalledSets}
    /\ active_tasks = <<>>
    /\ stopped_frameworks = {}
    /\ wf_pc = "none"
    /\ wf_selected = <<>>
    /\ wf_component = DefaultComponent
    /\ wf_out = <<>>
    /\ wf_raised = None
    /\ run_pc = "none"
    /\ run_framework = None
    /\ run_plugin = GoodUnit
    /\ run_component = DefaultComponent
    /\ run_pos = 0
    /\ unit_pc = "none"
    /\ run_out = <<>>
    /\ produce_calls = 0
    /\ stop_mark = [seen |-> FALSE, at |-> 0]
    /\ stop_requests = {}
    /\ last_call = NoCall
    /\ InitMux
    /\ stopping = {}
    /\ overlap = NoOverlap
    /\ InitManager

\* What a step of the manager leaves alone.
IdleManager ==
    /\ UNCHANGED mux_vars
    /\ UNCHANGED stopping
    /\ UNCHANGED last_call
    /\ UNCHANGED overlap

\* mgr_call after a call of the manager's method op with the argument arg.
ManagerCall(op, arg) == [op |-> op, arg |-> arg]

\* A step of the manager that is not recorded in mgr_call.
Unrecorded ==
    /\ mgr_call' = NoManagerCall
    /\ IdleManager

\* The first __anext__ of a generator of the manager runs to its first
\* yield without a suspension: `await self.orchestrator.restart_framework`
\* has no await inside, and `async for` steps execute_workflow at once.  The
\* step is followed through the positions "unstopped" and "inner_created",
\* at which nothing else runs.
MidStep == mgr_pc \in {"unstopped", "inner_created"}

\* A list comprehension that keeps every name.
ActiveFilterKeepsAll(frameworks) == frameworks

\* set_active_frameworks line 47: the names that are registered with the
\* orchestrator (line 46) or equal "llamaindex", in the caller's order.
ActiveFilter(frameworks) ==
    SelectSeq(frameworks,
              LAMBDA f : f \in SetOf(get_available_frameworks) \/ f = "llamaindex")

\* PluginIntegrationManager.set_active_frameworks
set_active_frameworks(frameworks) ==
    /\ ~MidStep
    /\ active_frameworks' = ActiveFilter(frameworks)
    /\ UNCHANGED <<mgr_pc, mgr_op, mgr_framework, mgr_out, mgr_before>>
    /\ UNCHANGED orch_vars
    /\ UNCHANGED wf_vars
    /\ UNCHANGED run_vars
    /\ UNCHANGED stop_mark
    /\ UNCHANGED stop_requests

\* PluginIntegrationManager.get_available_frameworks
manager_get_available_frameworks == <<"llamaindex">> \o get_available_frameworks

\* PluginIntegrationManager.stop_framework: the orchestrator's stop for
\* every name but "llamaindex".  This orchestrator holds no handle (the
\* create_task of line 106 raises before line 111), so the stop does not
\* suspend.
manager_stop_framework(framework) ==
    /\ ~MidStep
    /\ IF framework # "llamaindex"
       THEN \E o \in AwaitOutcomes : stop_framework(framework, o)
       ELSE /\ UNCHANGED orch_vars
            /\ UNCHANGED wf_vars
            /\ UNCHANGED run_vars
            /\ UNCHANGED stop_mark
            /\ UNCHANGED stop_requests
    /\ UNCHANGED <<active_frameworks, mgr_pc, mgr_op, mgr_framework, mgr_out, mgr_before>>

\* Calling execute_multi_framework_workflow creates the async generator;
\* its body runs at the consumer's first __anext__.
execute_multi_framework_workflow ==
    /\ ~MidStep
    /\ mgr_pc # "created"
    /\ mgr_pc' = "created"
    /\ mgr_op' = "execute"
    /\ mgr_framework' = None
    /\ mgr_out' = <<>>
    /\ mgr_before' = {}
    /\ UNCHANGED active_frameworks
    /\ UNCHANGED orch_vars
    /\ UNCHANGED wf_vars
    /\ UNCHANGED run_vars
    /\ UNCHANGED stop_mark
    /\ UNCHANGED stop_requests

\* execute_multi_framework_workflow line 72
plugin_frameworks(active) == SelectSeq(active, LAMBDA f : f # "llamaindex")

\* First __anext__ of execute_multi_framework_workflow, lines 72-76: with a
\* plugin name in the active list the orchestrator's execute_workflow is
\* called with the plugin names; otherwise the body ends.
manager_execute_begin ==
    /\ mgr_pc = "created"
    /\ mgr_op = "execute"
    /\ IF plugin_frameworks(active_frameworks) # <<>>
       THEN /\ execute_workflow(plugin_frameworks(active_frameworks), DefaultComponent)
            /\ mgr_pc' = "inner_created"
       ELSE /\ mgr_pc' = "ended"
            /\ UNCHANGED orch_vars
            /\ UNCHANGED wf_vars
            /\ UNCHANGED run_vars
            /\ UNCHANGED stop_mark
            /\ UNCHANGED stop_requests
    /\ UNCHANGED <<active_frameworks, mgr_op, mgr_framework, mgr_out, mgr_before>>

\* Calling the manager's restart_framework(framework, ...) creates the
\* async generator.
manager_restart_framework(framework) ==
    /\ ~MidStep
    /\ mgr_pc # "created"
    /\ mgr_pc' = "created"
    /\ mgr_op' = "restart"
    /\ mgr_framework' = framework
    /\ mgr_out' = <<>>
    /\ mgr_before' = {}
    /\ UNCHANGED active_frameworks
    /\ UNCHANGED orch_vars
    /\ UNCHANGED wf_vars
    /\ UNCHANGED run_vars
    /\ UNCHANGED stop_mark
    /\ UNCHANGED stop_requests

\* First __anext__ of the manager's restart_framework, lines 113-116: return
\* for "llamaindex", otherwise the orchestrator's restart_framework.
manager_restart_begin ==
    /\ mgr_pc = "created"
    /\ mgr_op = "restart"
    /\ mgr_before' = stopped_frameworks
    /\ IF mgr_framework = "llamaindex"
       THEN /\ mgr_pc' = "ended"
            /\ UNCHANGED orch_vars
            /\ UNCHANGED wf_vars
            /\ UNCHANGED run_vars
            /\ UNCHANGED stop_mark
            /\ UNCHANGED stop_requests
       ELSE /\ restart_framework(mgr_framework)
            /\ mgr_pc' = "unstopped"
    /\ UNCHANGED <<active_frameworks, mgr_op, mgr_framework, mgr_out>>

\* Lines 119-124: execute_workflow(user_input, [framework], ...) is called.
manager_restart_execute ==
    /\ mgr_pc = "unstopped"
    /\ execute_workflow(<<mgr_framework>>, DefaultComponent)
    /\ mgr_pc' = "inner_created"
    /\ UNCHANGED <<active_frameworks, mgr_op, mgr_framework, mgr_out, mgr_before>>

\* The `async for` of lines 76-82 and 119-125 takes the first item of the
\* orchestrator's generator: an event is yielded on to the caller, an
\* exception goes out of the manager's generator, and the end of the stream
\* ends it.
manager_inner_start ==
    /\ mgr_pc = "inner_created"
    /\ wf_start
    /\ mgr_pc' = IF wf_pc' = "yield_error" THEN "yielded"
                 ELSE IF wf_pc' = "raised" THEN "raised"
                 ELSE "ended"
    /\ mgr_out' = IF wf_pc' = "yield_error"
                  THEN Append(mgr_out, wf_out'[Len(wf_out')])
                  ELSE mgr_out
    /\ UNCHANGED <<active_frameworks, mgr_op, mgr_framework, mgr_before>>

\* The caller's next __anext__ after an event: the orchestrator's generator
\* returns (line 97) and the manager's generator ends.
manager_resume ==
    /\ mgr_pc = "yielded"
    /\ wf_return
    /\ mgr_pc' = "ended"
    /\ UNCHANGED <<active_frameworks, mgr_op, mgr_framework, mgr_out, mgr_before>>

\* The manager driven through set_active_frameworks, stop_framework and
\* execute_multi_framework_workflow.
NextManager ==
    \/ \E frameworks \in ManagerLists :
           /\ set_active_frameworks(frameworks)
           /\ mgr_call' = ManagerCall("set_active_frameworks", frameworks)
           /\ IdleManager
    \/ \E f \in ManagerNames :
           /\ manager_stop_framework(f)
           /\ mgr_call' = ManagerCall("stop_framework", <<f>>)
           /\ IdleManager
    \/ execute_multi_framework_workflow /\ Unrecorded
    \/ manager_execute_begin /\ Unrecorded
    \/ manager_inner_start /\ Unrecorded

SpecManager == InitSession /\ [][NextManager]_vars

\* The manager driven through stop_framework and restart_framework.
NextRestart ==
    \/ \E f \in ManagerNames : manager_stop_framework(f) /\ Unrecorded
    \/ \E f \in ManagerNames : manager_restart_framework(f) /\ Unrecorded
    \/ manager_restart_begin /\ Unrecorded
    \/ manager_restart_execute /\ Unrecorded
    \/ manager_inner_start /\ Unrecorded
    \/ manager_resume /\ Unrecorded

SpecRestart == InitSession /\ [][NextRestart]_vars

\* Every manager variable has a value of its kind.
ManagerTypeOK ==
    /\ active_frameworks \in Seq(ManagerNames)
    /\ mgr_pc \in {"none", "created", "unstopped", "inner_created", "yielded", "raised",
                   "ended"}
    /\ mgr_op \in {"none", "execute", "restart"}

\* The step in which the first __anext__ of the manager's restart generator
\* comes back from the orchestrator's execute_workflow.
RestartStepEnds ==
    /\ mgr_op = "restart"
    /\ mgr_pc = "inner_created"
    /\ mgr_pc' # "inner_created"

RECURSIVE IsSubList(_, _)
\* The list a is the list b with some of its items left out: what a list
\* comprehension with a condition makes of b.
IsSubList(a, b) ==
    IF a = <<>> THEN TRUE
    ELSE IF b = <<>> THEN FALSE
    ELSE IF Head(a) = Head(b) THEN IsSubList(Tail(a), Tail(b))
    ELSE IsSubList(a, Tail(b))

\* C38: through set_active_frameworks and execute_multi_framework_workflow
\* the manager never hands "llamaindex" or an unregistered name to the
\* orchestrator.  After every step the active list holds only registered
\* names and "llamaindex", and after set_active_frameworks it is a sub-list
\* of the caller's list, in the caller's order; the list handed to
\* execute_workflow is the active list without "llamaindex", all of its
\* names registered, so the orchestrator never answers with its
\* invalid-frameworks envelope; stop_framework("llamaindex") changes
\* nothing; and with no plugin name in the active list the workflow calls
\* no execute_workflow and ends having yielded no envelope.
C38_ManagerHandsOverRegisteredPluginsOnly ==
    [][/\ SetOf(active_frameworks') \subseteq DictKeySet(plugins') \cup {"llamaindex"}
       /\ mgr_call'.op = "set_active_frameworks"
            => /\ IsSubList(active_frameworks', mgr_call'.arg)
               /\ UNCHANGED <<orch_vars, wf_vars>>
       /\ (mgr_op = "execute" /\ mgr_pc = "created" /\ mgr_pc' = "inner_created")
            => /\ wf_selected' # <<>>
               /\ "llamaindex" \notin SetOf(wf_selected')
               /\ SetOf(wf_selected') \subseteq DictKeySet(plugins)
               /\ IsSubList(wf_selected', active_frameworks)
               /\ SetOf(wf_selected') = SetOf(active_frameworks) \ {"llamaindex"}
       /\ (mgr_op' = "execute" /\ mgr_pc = "inner_created")
            => mgr_pc' # "yielded"
       /\ (mgr_call'.op = "stop_framework" /\ mgr_call'.arg = <<"llamaindex">>)
            => UNCHANGED <<orch_vars, wf_vars, run_vars, active_frameworks,
                           mgr_pc, mgr_op, mgr_framework, mgr_out>>
       /\ (mgr_op = "execute" /\ mgr_pc = "created" /\ mgr_pc' # "created"
             /\ SetOf(active_frameworks) \subseteq {"llamaindex"})
            => /\ mgr_pc' = "ended"
               /\ mgr_out' = <<>>
               /\ UNCHANGED <<orch_vars, wf_vars>>]_vars

\* The workflow has handed a list to execute_workflow while the active list
\* also names "llamaindex", after a caller's list with an unregistered name
\* had been filtered.
C38_Witness ==
    /\ mgr_op = "execute"
    /\ mgr_pc = "inner_created"
    /\ "llamaindex" \in SetOf(active_frameworks)
    /\ wf_pc = "created"
    /\ Len(wf_selected) >= 1
    /\ Len(active_frameworks) > Len(wf_selected)
    /\ DictKeySet(plugins) # Names

=============================================================================
